---- MODULE Spec2Model ----
(***************************************************************************)
(* Parametron (src/src/Parametron.ts, the executor version, lines 322-643) *)
(* as a state machine: the state is the Parametron instance created by     *)
(* createParametron (this.data, this.opts), the executor calls in flight   *)
(* with the promise each api.fire returned, and the update callback.       *)
(* History variables record what the caller did: fires, prepares, updates, *)
(* muts, lastGood, asked (the ids last passed to api.setFixedOrder), last. *)
(*                                                                         *)
(* JavaScript scalars are written as strings: the number 1 is "1", null is *)
(* "null", undefined is "undefined".  An object is a function whose DOMAIN *)
(* is the set of its keys, so an absent key is a key outside the DOMAIN.   *)
(***************************************************************************)
EXTENDS Integers, Sequences, FiniteSets, TLC

VARIABLES data, opts, calls, fires, prepares, updates, muts, lastGood, asked, last

vars == <<data, opts, calls, fires, prepares, updates, muts, lastGood, asked, last>>

\* ---------------------------------------------------------------- bounds
MaxFires == 2
MaxReqId == 3
MaxMuts == 1

\* ------------------------------------------------------- JavaScript values
Null == "null"
Undefined == "undefined"

isNil(v) == v \in {Null, Undefined}

\* values that `if (v)` and lodash compact treat as false
Falsy == {Null, Undefined, "", "0", "false"}

EmptyMap == [k \in {} |-> ""]

\* t[i] of a JavaScript array: undefined past the end
at(t, i) == IF i \in 1..Len(t) THEN t[i] ELSE Undefined

\* lodash extend / Object.assign on objects with scalar values
extend(a, b) == [k \in (DOMAIN a) \cup (DOMAIN b) |-> IF k \in DOMAIN b THEN b[k] ELSE a[k]]

\* lodash pick
pick(o, keys) == [k \in (DOMAIN o) \cap keys |-> o[k]]

\* ------------------------------------------------------- module constants
initialParams == [page |-> "1", per |-> "24", sort |-> "created_at", order |-> "desc"]

emptyResults == [totalCount |-> 0, totalPages |-> 0, objects |-> <<>>, aggregations |-> EmptyMap]

ViewKeys == {"page", "per", "sort", "order"}

\* this.data after the constructor; view holds data.page/per/sort/order,
\* which the constructor does not set
initialData ==
  [reqId |-> 0, running |-> FALSE, filters |-> <<>>, persistentFilters |-> <<>>,
   totalCount |-> emptyResults.totalCount, totalPages |-> emptyResults.totalPages,
   objects |-> emptyResults.objects, aggregations |-> emptyResults.aggregations,
   params |-> initialParams, view |-> EmptyMap]

\* ------------------------------------------------------------ state store
filterByAttributeMethod(attribute, method, filter) ==
  LET attr == at(filter, 1)
      meth == at(filter, 2)
  IN IF attribute \notin Falsy /\ method \notin Falsy THEN attribute = attr /\ method = meth
     ELSE IF attribute \notin Falsy THEN attribute = attr
     ELSE IF method \notin Falsy THEN method = meth
     ELSE TRUE

\* dropFilters ignoring the method when an attribute is given
dropFilters_attributeOnly(filters, attribute, method) ==
  SelectSeq(filters, LAMBDA f: ~filterByAttributeMethod(attribute, Undefined, f))

\* lodash remove on this.data.filters: the filters that stay
dropFilters(filters, attribute, method) ==
  SelectSeq(filters, LAMBDA f: ~filterByAttributeMethod(attribute, method, f))

getFilters(d, attribute, method) ==
  SelectSeq(d.filters, LAMBDA f: filterByAttributeMethod(attribute, method, f))

pristine(d) == getFilters(d, Undefined, Undefined) = <<>>

\* getFilterValues returning the list of values as it is, never unwrapped
getFilterValues_noUnwrap(d, attribute, method) ==
  LET applied == SelectSeq(d.filters, LAMBDA f: filterByAttributeMethod(attribute, method, f))
      candidate == IF applied = <<>> THEN <<>> ELSE Head(applied)
      values == SubSeq(candidate, 3, Len(candidate))
  IN IF applied = <<>> THEN [kind |-> "undefined", list |-> <<>>, value |-> Undefined]
     ELSE [kind |-> "list", list |-> values, value |-> Undefined]

\* values.length > 1 ? values : first(values), the JavaScript result written as
\* a record: a list, a single value, or undefined
getFilterValues(d, attribute, method) ==
  LET applied == SelectSeq(d.filters, LAMBDA f: filterByAttributeMethod(attribute, method, f))
      candidate == IF applied = <<>> THEN <<>> ELSE Head(applied)
      values == SubSeq(candidate, 3, Len(candidate))
  IN IF Len(values) > 1 THEN [kind |-> "list", list |-> values, value |-> Undefined]
     ELSE IF Len(values) = 1 THEN [kind |-> "value", list |-> <<>>, value |-> values[1]]
     ELSE [kind |-> "undefined", list |-> <<>>, value |-> Undefined]

\* setFilter clearing the filters of the same attribute and method only
setFilter_sameMethodOnly(d, attribute, method, value1, value2) ==
  LET kept == IF method = "q" THEN dropFilters(d.filters, "_", Undefined)
              ELSE dropFilters(d.filters, attribute, method)
      condition == SelectSeq(<<attribute, method, value1, value2>>, LAMBDA v: ~isNil(v))
  IN [d EXCEPT !.filters = Append(kept, condition),
               !.params = extend(d.params, [page |-> "1"])]

\* setFilter without this.data.params.page = 1
setFilter_keepPage(d, attribute, method, value1, value2) ==
  LET f == d.filters
      kept ==
        CASE method = "q" -> dropFilters(f, "_", Undefined)
          [] method = "match" -> dropFilters(f, attribute, "match")
          [] method \in {"eq", "ne"} ->
               dropFilters(dropFilters(f, attribute, "eq"), attribute, "ne")
          [] method \in {"range", "in", "not_in"} ->
               dropFilters(dropFilters(dropFilters(f, attribute, "range"), attribute, "in"),
                           attribute, "not_in")
          [] method \in {"exist", "not_exist"} ->
               dropFilters(dropFilters(f, attribute, "exist"), attribute, "not_exist")
          [] OTHER -> f
      condition == SelectSeq(<<attribute, method, value1, value2>>, LAMBDA v: ~isNil(v))
  IN [d EXCEPT !.filters = Append(kept, condition)]

setFilter(d, attribute, method, value1, value2) ==
  LET f == d.filters
      kept ==
        CASE method = "q" -> dropFilters(f, "_", Undefined)
          [] method = "match" -> dropFilters(f, attribute, "match")
          [] method \in {"eq", "ne"} ->
               dropFilters(dropFilters(f, attribute, "eq"), attribute, "ne")
          [] method \in {"range", "in", "not_in"} ->
               dropFilters(dropFilters(dropFilters(f, attribute, "range"), attribute, "in"),
                           attribute, "not_in")
          [] method \in {"exist", "not_exist"} ->
               dropFilters(dropFilters(f, attribute, "exist"), attribute, "not_exist")
          [] OTHER -> f
      condition == SelectSeq(<<attribute, method, value1, value2>>, LAMBDA v: ~isNil(v))
  IN [d EXCEPT !.filters = Append(kept, condition),
               !.params = extend(d.params, [page |-> "1"])]

\* lodash compact
compact(t) == SelectSeq(t, LAMBDA v: v \notin Falsy)

\* setPersistentFilter skipping a tuple that is already there
setPersistentFilter_dedupe(d, attribute, method, value1, value2) ==
  LET t == compact(<<attribute, method, value1, value2>>)
  IN IF \E i \in DOMAIN d.persistentFilters : d.persistentFilters[i] = t
     THEN d
     ELSE [d EXCEPT !.persistentFilters = Append(d.persistentFilters, t)]

setPersistentFilter(d, attribute, method, value1, value2) ==
  [d EXCEPT !.persistentFilters = Append(d.persistentFilters, compact(<<attribute, method, value1, value2>>))]

\* lodash merge({}, params, patch): a source value of undefined is skipped
\* when the destination has the key
merge(p, patch) ==
  [k \in (DOMAIN p) \cup (DOMAIN patch) |->
     IF k \in DOMAIN patch /\ patch[k] # Undefined THEN patch[k]
     ELSE IF k \in DOMAIN p THEN p[k]
     ELSE Undefined]

\* lodash pickBy(newParams, value => !isNull(value) && !isUndefined(value))
pickBy(o) == [k \in {x \in DOMAIN o : ~isNil(o[x])} |-> o[k]]

\* setParams preparing a fire as well, as the wrappers of the older version
\* that fire after every change
setParams_firing(d, patch) ==
  [d EXCEPT !.params = pickBy(merge(d.params, patch)),
            !.running = TRUE,
            !.reqId = d.reqId + 1]

\* setParams without the pickBy
setParams_keepNil(d, patch) == [d EXCEPT !.params = merge(d.params, patch)]

setParams(d, patch) == [d EXCEPT !.params = pickBy(merge(d.params, patch))]

\* for (let key in keys) delete this.data.params[key]: key ranges over the
\* indices "0", "1", ... of the arguments array
dropParams(d, keys) ==
  LET idx == {ToString(i - 1) : i \in 1..Len(keys)}
  IN [d EXCEPT !.params = [k \in (DOMAIN d.params) \ idx |-> d.params[k]]]

\* ------------------------------------------------------ fetch coordinator
\* prepare run twice per fire, as when Parametron.fire prepares as well
prepare_twice(d) ==
  [d EXCEPT !.running = TRUE,
            !.reqId = d.reqId + 2,
            !.view = extend(d.view, pick(d.params, ViewKeys)),
            !.totalCount = emptyResults.totalCount,
            !.totalPages = emptyResults.totalPages,
            !.objects = emptyResults.objects,
            !.aggregations = emptyResults.aggregations]

\* prepare without the pick(params, ...) argument
prepare_noView(d) ==
  [d EXCEPT !.running = TRUE,
            !.reqId = d.reqId + 1,
            !.totalCount = emptyResults.totalCount,
            !.totalPages = emptyResults.totalPages,
            !.objects = emptyResults.objects,
            !.aggregations = emptyResults.aggregations]

\* prepare without the emptyResults argument
prepare_keepResults(d) ==
  [d EXCEPT !.running = TRUE,
            !.reqId = d.reqId + 1,
            !.view = extend(d.view, pick(d.params, ViewKeys))]

\* extend(this.data, {running, reqId}, pick(params, page, per, sort, order), emptyResults)
prepare(d) ==
  [d EXCEPT !.running = TRUE,
            !.reqId = d.reqId + 1,
            !.view = extend(d.view, pick(d.params, ViewKeys)),
            !.totalCount = emptyResults.totalCount,
            !.totalPages = emptyResults.totalPages,
            !.objects = emptyResults.objects,
            !.aggregations = emptyResults.aggregations]

\* the request body with the filters before the persistent filters
body_filtersFirst(d, o) ==
  LET filters == d.filters \o d.persistentFilters
      keys == (DOMAIN d.params) \cup {"search"} \cup (IF o.stats = Undefined THEN {} ELSE {"stats"})
  IN [k \in keys |->
        IF k = "search" THEN [filters |-> filters]
        ELSE IF k = "stats" THEN o.stats
        ELSE d.params[k]]

\* merge({}, this.data.params, {search: {filters}, stats: this.opts.stats})
body(d, o) ==
  LET filters == d.persistentFilters \o d.filters
      keys == (DOMAIN d.params) \cup {"search"} \cup (IF o.stats = Undefined THEN {} ELSE {"stats"})
  IN [k \in keys |->
        IF k = "search" THEN [filters |-> filters]
        ELSE IF k = "stats" THEN o.stats
        ELSE d.params[k]]

\* lodash get(result, 'pagination.<key>', 0)
getPagination(result, key) ==
  IF key \in DOMAIN result.pagination THEN result.pagination[key] ELSE 0

\* the then-handler reading totalPages from pagination.total_count
onSuccess_pagesFromCount(d, result) ==
  [d EXCEPT !.running = FALSE,
            !.objects = result.objects,
            !.aggregations = result.aggregations,
            !.totalCount = IF "total_count" \in DOMAIN result.pagination
                           THEN result.pagination["total_count"] ELSE 0,
            !.totalPages = IF "total_count" \in DOMAIN result.pagination
                           THEN result.pagination["total_count"] ELSE 0]

\* the then-handler of the executor's promise in Parametron.fire
onSuccess(d, result) ==
  [d EXCEPT !.running = FALSE,
            !.objects = result.objects,
            !.aggregations = result.aggregations,
            !.totalCount = getPagination(result, "total_count"),
            !.totalPages = getPagination(result, "total_pages")]

\* the catch-handler resetting the results as well
onFailure_reset(d) ==
  [d EXCEPT !.running = FALSE,
            !.totalCount = emptyResults.totalCount,
            !.totalPages = emptyResults.totalPages,
            !.objects = emptyResults.objects,
            !.aggregations = emptyResults.aggregations]

\* the catch-handler without this.data.running = false
onFailure_keepRunning(d) == d

\* the catch-handler of the executor's promise in Parametron.fire
onFailure(d) == [d EXCEPT !.running = FALSE]

\* what the api.fire promise fulfils with: the live this.data
TheData == "instance.data"

\* the executor call made by Parametron.fire, and the promise api.fire returns
\* for it: params is this.data.params itself (aliased) until setParams
\* replaces that object
newCall(d, o) ==
  [reqId |-> d.reqId, body |-> body(d, o), params |-> d.params, aliased |-> TRUE,
   schema |-> o.schema, state |-> "pending", value |-> Undefined, updated |-> FALSE]

\* Parametron.fire cancelling the pending promise first (this.pact.cancel())
fire_cancelling(cs, d, o) ==
  Append([i \in DOMAIN cs |->
            IF cs[i].state = "pending" THEN [cs[i] EXCEPT !.state = "cancelled"] ELSE cs[i]],
         newCall(d, o))

\* Parametron.fire up to the executor call: the calls in flight stay in flight
fire(cs, d, o) == Append(cs, newCall(d, o))

\* the executor's promise fulfils: resolve(this.data), then api.fire's
\* then-handler calls update and returns instance.data
fulfilled(c) == [c EXCEPT !.state = "fulfilled", !.value = TheData, !.updated = TRUE]

\* the executor's promise rejects: reject(err); api.fire's then-handler is skipped
rejected(c, err) == [c EXCEPT !.state = "rejected", !.value = err]

\* a write into the object this.data.params shows in every call that holds it
inPlace(cs, p) == [i \in DOMAIN cs |-> IF cs[i].aliased THEN [cs[i] EXCEPT !.params = p] ELSE cs[i]]

\* this.data.params becomes a new object: no call holds it any more
replaced(cs) == [i \in DOMAIN cs |-> [cs[i] EXCEPT !.aliased = FALSE]]

\* ------------------------------------------------------------- inputs
\* what createParametron is given: the options, and whether the init callback
\* sets a persistent filter (as in the README's usage)
Constructions ==
  {[opts |-> [stats |-> Undefined, schema |-> "schema1"], init |-> FALSE],
   [opts |-> [stats |-> "stats1", schema |-> Undefined], init |-> TRUE]}

FilterArgs == {<<"_", "q", "foo", Undefined>>, <<"a", "eq", "1", Undefined>>}

DropArgs == {<<Undefined, Undefined>>, <<"a", Undefined>>}

\* the tuple the init callback adds, so that a tuple is added twice
PersistentArgs == {<<"id", "in", "5", Undefined>>}

Patches == {[per |-> Null], [page |-> "2"]}

DropKeys == {<<"per">>}

Results ==
  {[objects |-> <<1>>, aggregations |-> [count_by_a |-> <<"x">>],
    pagination |-> [total_count |-> 1, total_pages |-> 1]],
   [objects |-> <<2, 1>>, aggregations |-> EmptyMap, pagination |-> [total_count |-> 7]]}

Errors == {"E1"}

\* ------------------------------------------------------ history variables
results(d) ==
  [totalCount |-> d.totalCount, totalPages |-> d.totalPages,
   objects |-> d.objects, aggregations |-> d.aggregations]

Pending(cs) == {i \in DOMAIN cs : cs[i].state = "pending"}

\* the operation that led to the current state: its name, the call it settled
\* (or issued), its argument, this.data before it, and the executor calls
\* made and in flight before it
Last(op, i, arg) ==
  [op |-> op, i |-> i, arg |-> arg, pre |-> data, n |-> Len(calls), pending |-> Pending(calls)]

\* ------------------------------------------------------------- actions
Init ==
  /\ \E c \in Constructions :
       /\ opts = c.opts
       /\ data = IF c.init
                 THEN setPersistentFilter(initialData, "id", "in", "5", Undefined)
                 ELSE initialData
  /\ calls = <<>>
  /\ fires = 0
  /\ prepares = 0
  /\ updates = 0
  /\ muts = 0
  /\ lastGood = [any |-> FALSE, results |-> emptyResults, sincePrepare |-> FALSE]
  /\ asked = Undefined
  /\ last = [op |-> "new", i |-> 0, arg |-> Undefined, pre |-> initialData, n |-> 0, pending |-> {}]

SetFilter ==
  /\ muts < MaxMuts
  /\ \E a \in FilterArgs :
       /\ data' = setFilter(data, a[1], a[2], a[3], a[4])
       /\ calls' = inPlace(calls, data'.params)
       /\ last' = Last("setFilter", 0, a)
  /\ muts' = muts + 1
  /\ UNCHANGED <<asked, opts, fires, prepares, updates, lastGood>>

DropFilters ==
  /\ muts < MaxMuts
  /\ \E a \in DropArgs :
       /\ data' = [data EXCEPT !.filters = dropFilters(data.filters, a[1], a[2])]
       /\ last' = Last("dropFilters", 0, a)
  /\ muts' = muts + 1
  /\ UNCHANGED <<asked, opts, calls, fires, prepares, updates, lastGood>>

SetPersistentFilter ==
  /\ muts < MaxMuts
  /\ \E a \in PersistentArgs :
       /\ data' = setPersistentFilter(data, a[1], a[2], a[3], a[4])
       /\ last' = Last("setPersistentFilter", 0, a)
  /\ muts' = muts + 1
  /\ UNCHANGED <<asked, opts, calls, fires, prepares, updates, lastGood>>

SetParams ==
  /\ muts < MaxMuts
  /\ \E patch \in Patches :
       /\ data' = setParams(data, patch)
       /\ last' = Last("setParams", 0, patch)
  /\ calls' = replaced(calls)
  /\ muts' = muts + 1
  /\ UNCHANGED <<asked, opts, fires, prepares, updates, lastGood>>

DropParams ==
  /\ muts < MaxMuts
  /\ \E keys \in DropKeys :
       /\ data' = dropParams(data, keys)
       /\ calls' = inPlace(calls, data'.params)
       /\ last' = Last("dropParams", 0, keys)
  /\ muts' = muts + 1
  /\ UNCHANGED <<asked, opts, fires, prepares, updates, lastGood>>

\* instance.prepare() called on its own
Prepare ==
  /\ data.reqId < MaxReqId
  /\ data' = prepare(data)
  /\ prepares' = prepares + 1
  /\ lastGood' = [lastGood EXCEPT !.sincePrepare = FALSE]
  /\ last' = Last("prepare", 0, Undefined)
  /\ UNCHANGED <<asked, opts, calls, fires, updates, muts>>

\* api.fire(): instance.prepare(); update(instance.data); instance.fire()
Fire ==
  /\ fires < MaxFires
  /\ data.reqId < MaxReqId
  /\ data' = prepare(data)
  /\ updates' = updates + 1
  /\ calls' = fire(calls, data', opts)
  /\ fires' = fires + 1
  /\ lastGood' = [lastGood EXCEPT !.sincePrepare = FALSE]
  /\ last' = Last("fire", Len(calls) + 1, Undefined)
  /\ UNCHANGED <<asked, opts, prepares, muts>>

\* the executor's promise of call i fulfils with result: the then-handler of
\* Parametron.fire, then the then-handler of api.fire
Resolve ==
  \E i \in DOMAIN calls, result \in Results :
    /\ calls[i].state = "pending"
    /\ data' = onSuccess(data, result)
    /\ updates' = updates + 1
    /\ calls' = [calls EXCEPT ![i] = fulfilled(calls[i])]
    /\ lastGood' = [any |-> TRUE, results |-> results(data'), sincePrepare |-> TRUE]
    /\ last' = Last("resolve", i, result)
    /\ UNCHANGED <<asked, opts, fires, prepares, muts>>

\* the executor's promise of call i rejects with err: the catch-handler of
\* Parametron.fire; the then-handler of api.fire is skipped
Reject ==
  \E i \in DOMAIN calls, err \in Errors :
    /\ calls[i].state = "pending"
    /\ data' = onFailure(data)
    /\ calls' = [calls EXCEPT ![i] = rejected(calls[i], err)]
    /\ last' = Last("reject", i, err)
    /\ UNCHANGED <<asked, opts, fires, prepares, updates, muts, lastGood>>

Next ==
  \/ SetFilter
  \/ DropFilters
  \/ SetPersistentFilter
  \/ SetParams
  \/ DropParams
  \/ Prepare
  \/ Fire
  \/ Resolve
  \/ Reject

Spec == Init /\ [][Next]_vars


\* ------------------------------------------------- the state store alone
\* the synchronous operations of the api, called in any order before any fire
MaxStoreOps == 3

Attributes == {"_", "a"}

Methods == {"q", "match", "eq", "ne", "range", "in", "not_in", "exist", "not_exist"}

\* exist and not_exist without a value, every other method with one value,
\* some with two other values, and a range that has its end only
StoreFilterArgs ==
  {<<a, m, "1", Undefined>> : a \in Attributes, m \in Methods \ {"exist", "not_exist"}}
    \cup {<<a, m, Undefined, Undefined>> : a \in Attributes, m \in {"exist", "not_exist"}}
    \cup {<<a, m, "2", "3">> : a \in Attributes, m \in {"q", "eq", "range"}}
    \cup {<<"a", "range", Null, "3">>}

\* the init callback's tuple, and a filter on the value 0
StorePersistentArgs == {<<"id", "in", "5", Undefined>>, <<"g", "eq", "0", Undefined>>}

StoreDropArgs == {<<a, m>> : a \in Attributes \cup {Undefined}, m \in {Undefined, "eq", "in"}}

StorePatches == {[per |-> Null], [per |-> Undefined], [page |-> "2"], [page |-> Null, only_roots |-> "false"]}

QueryArgs == {<<"_", "q">>, <<"a", "q">>, <<"a", "eq">>, <<"a", "range">>}

\* createParametron without an init callback
StoreInit == Init /\ data = initialData

StoreSetFilter ==
  /\ muts < MaxStoreOps
  /\ \E a \in StoreFilterArgs :
       /\ data' = setFilter(data, a[1], a[2], a[3], a[4])
       /\ calls' = inPlace(calls, data'.params)
       /\ last' = Last("setFilter", 0, a)
  /\ muts' = muts + 1
  /\ UNCHANGED <<asked, opts, fires, prepares, updates, lastGood>>

StoreDropFilters ==
  /\ muts < MaxStoreOps
  /\ \E a \in StoreDropArgs :
       /\ data' = [data EXCEPT !.filters = dropFilters(data.filters, a[1], a[2])]
       /\ last' = Last("dropFilters", 0, a)
  /\ muts' = muts + 1
  /\ UNCHANGED <<asked, opts, calls, fires, prepares, updates, lastGood>>

StoreSetPersistentFilter ==
  /\ muts < MaxStoreOps
  /\ \E a \in StorePersistentArgs :
       /\ data' = setPersistentFilter(data, a[1], a[2], a[3], a[4])
       /\ last' = Last("setPersistentFilter", 0, a)
  /\ muts' = muts + 1
  /\ UNCHANGED <<asked, opts, calls, fires, prepares, updates, lastGood>>

StoreSetParams ==
  /\ muts < MaxStoreOps
  /\ \E patch \in StorePatches :
       /\ data' = setParams(data, patch)
       /\ last' = Last("setParams", 0, patch)
  /\ calls' = replaced(calls)
  /\ muts' = muts + 1
  /\ UNCHANGED <<asked, opts, fires, prepares, updates, lastGood>>

StoreDropParams ==
  /\ muts < MaxStoreOps
  /\ \E keys \in DropKeys :
       /\ data' = dropParams(data, keys)
       /\ calls' = inPlace(calls, data'.params)
       /\ last' = Last("dropParams", 0, keys)
  /\ muts' = muts + 1
  /\ UNCHANGED <<asked, opts, fires, prepares, updates, lastGood>>

\* api.getFilterValues(attribute, method): a query, this.data is only read;
\* the value returned is kept with the arguments
StoreGetFilterValues ==
  /\ muts < MaxStoreOps
  /\ \E q \in QueryArgs :
       last' = Last("getFilterValues", 0, <<q[1], q[2], getFilterValues(data, q[1], q[2])>>)
  /\ muts' = muts + 1
  /\ UNCHANGED <<asked, data, opts, calls, fires, prepares, updates, lastGood>>

StoreNext ==
  \/ StoreSetFilter
  \/ StoreDropFilters
  \/ StoreSetPersistentFilter
  \/ StoreSetParams
  \/ StoreDropParams
  \/ StoreGetFilterValues

StoreSpec == StoreInit /\ [][StoreNext]_vars

\* ------------------------------------------------ the api object as called
\* get(this.data, `aggregations.count_by_${attribute}`) || []
getAggregations(d, attribute) ==
  LET key == "count_by_" \o attribute
  IN IF key \in DOMAIN d.aggregations /\ d.aggregations[key] \notin Falsy
     THEN d.aggregations[key]
     ELSE <<>>

\* the functions createParametron puts on the api object
apiFunctions ==
  {"getAggregations", "setFilter", "dropFilters", "setParams", "dropParams", "setPersistentFilter"}

apiFunctionsWithReturn == {"getFilters", "getFilterValues", "pristine"}

apiKeys == apiFunctions \cup apiFunctionsWithReturn \cup {"fire"}

TypeError == "TypeError"

\* api[fn](...): what the call raises and returns.  A wrapper of apiFunctions
\* returns the api object, a wrapper of apiFunctionsWithReturn the result of
\* the instance method; a name that is not on the api object is undefined, and
\* calling it raises a TypeError
apiCall(fn, result) ==
  IF fn \notin apiKeys THEN [raised |-> TypeError, kind |-> "none", list |-> <<>>]
  ELSE IF fn \in apiFunctions THEN [raised |-> Undefined, kind |-> "api", list |-> <<>>]
  ELSE [raised |-> Undefined, kind |-> "list", list |-> result]

MaxApiFires == 2

\* createParametron with and without the executor option; the init callback
\* sets a persistent filter
ApiConstructions ==
  {[opts |-> [executor |-> "executor1", stats |-> "stats1", schema |-> "schema1"], init |-> FALSE],
   [opts |-> [executor |-> Undefined, stats |-> Undefined, schema |-> Undefined], init |-> TRUE]}

AggregationArgs == {"a", "b"}

FixedOrders == {<<1, 2>>}

Tokens == {"malformed"}

\* new Parametron(opts) checks no option: the instance is returned, init is
\* called; last.arg.raised is the error the construction raised
ApiInit ==
  /\ \E c \in ApiConstructions :
       /\ opts = c.opts
       /\ data = IF c.init
                 THEN setPersistentFilter(initialData, "id", "in", "5", Undefined)
                 ELSE initialData
  /\ calls = <<>>
  /\ fires = 0
  /\ prepares = 0
  /\ updates = 0
  /\ muts = 0
  /\ lastGood = [any |-> FALSE, results |-> emptyResults, sincePrepare |-> FALSE]
  /\ asked = Undefined
  /\ last = [op |-> "new", i |-> 0, arg |-> [raised |-> Undefined], pre |-> initialData,
             n |-> 0, pending |-> {}]

\* api.fire(): prepare, update, then Parametron.fire; without an executor
\* this.opts.executor(...) raises a TypeError inside the promise callback, the
\* promise is rejected with it and no handler resets running
ApiFire ==
  /\ fires < MaxApiFires
  /\ data' = prepare(data)
  /\ updates' = updates + 1
  /\ calls' = IF opts.executor = Undefined
              THEN Append(calls, rejected(newCall(data', opts), TypeError))
              ELSE fire(calls, data', opts)
  /\ fires' = fires + 1
  /\ lastGood' = [lastGood EXCEPT !.sincePrepare = FALSE]
  /\ last' = Last("fire", Len(calls) + 1, Undefined)
  /\ UNCHANGED <<asked, opts, prepares, muts>>

\* api.getAggregations(attribute)
ApiGetAggregations ==
  /\ \E attribute \in AggregationArgs :
       last' = Last("getAggregations", 0,
                    [attribute |-> attribute,
                     returned |-> apiCall("getAggregations", getAggregations(data, attribute))])
  /\ UNCHANGED <<asked, data, opts, calls, fires, prepares, updates, muts, lastGood>>

\* api.setFixedOrder(ids)
ApiSetFixedOrder ==
  /\ \E ids \in FixedOrders :
       /\ asked' = ids
       /\ last' = Last("setFixedOrder", 0, [ids |-> ids, returned |-> apiCall("setFixedOrder", <<>>)])
  /\ UNCHANGED <<data, opts, calls, fires, prepares, updates, muts, lastGood>>

\* api.serialize()
ApiSerialize ==
  /\ last' = Last("serialize", 0, [returned |-> apiCall("serialize", <<>>)])
  /\ UNCHANGED <<asked, data, opts, calls, fires, prepares, updates, muts, lastGood>>

\* api.deserialize(token)
ApiDeserialize ==
  /\ \E token \in Tokens :
       last' = Last("deserialize", 0, [token |-> token, returned |-> apiCall("deserialize", <<>>)])
  /\ UNCHANGED <<asked, data, opts, calls, fires, prepares, updates, muts, lastGood>>

ApiNext ==
  \/ ApiFire
  \/ Resolve
  \/ Reject
  \/ ApiGetAggregations
  \/ ApiSetFixedOrder
  \/ ApiSerialize
  \/ ApiDeserialize

ApiSpec == ApiInit /\ [][ApiNext]_vars

\* ------------------------------------------- changes while a fire is in flight
\* one api.fire and the synchronous operations before and after it
MaxFlightFires == 1
MaxFlightMuts == 2

FlightFire ==
  /\ fires < MaxFlightFires
  /\ data' = prepare(data)
  /\ updates' = updates + 1
  /\ calls' = fire(calls, data', opts)
  /\ fires' = fires + 1
  /\ lastGood' = [lastGood EXCEPT !.sincePrepare = FALSE]
  /\ last' = Last("fire", Len(calls) + 1, Undefined)
  /\ UNCHANGED <<asked, opts, prepares, muts>>

FlightSetFilter ==
  /\ muts < MaxFlightMuts
  /\ \E a \in FilterArgs :
       /\ data' = setFilter(data, a[1], a[2], a[3], a[4])
       /\ calls' = inPlace(calls, data'.params)
       /\ last' = Last("setFilter", 0, a)
  /\ muts' = muts + 1
  /\ UNCHANGED <<asked, opts, fires, prepares, updates, lastGood>>

FlightDropFilters ==
  /\ muts < MaxFlightMuts
  /\ \E a \in DropArgs :
       /\ data' = [data EXCEPT !.filters = dropFilters(data.filters, a[1], a[2])]
       /\ last' = Last("dropFilters", 0, a)
  /\ muts' = muts + 1
  /\ UNCHANGED <<asked, opts, calls, fires, prepares, updates, lastGood>>

FlightSetPersistentFilter ==
  /\ muts < MaxFlightMuts
  /\ \E a \in PersistentArgs :
       /\ data' = setPersistentFilter(data, a[1], a[2], a[3], a[4])
       /\ last' = Last("setPersistentFilter", 0, a)
  /\ muts' = muts + 1
  /\ UNCHANGED <<asked, opts, calls, fires, prepares, updates, lastGood>>

FlightSetParams ==
  /\ muts < MaxFlightMuts
  /\ \E patch \in Patches :
       /\ data' = setParams(data, patch)
       /\ last' = Last("setParams", 0, patch)
  /\ calls' = replaced(calls)
  /\ muts' = muts + 1
  /\ UNCHANGED <<asked, opts, fires, prepares, updates, lastGood>>

FlightDropParams ==
  /\ muts < MaxFlightMuts
  /\ \E keys \in DropKeys :
       /\ data' = dropParams(data, keys)
       /\ calls' = inPlace(calls, data'.params)
       /\ last' = Last("dropParams", 0, keys)
  /\ muts' = muts + 1
  /\ UNCHANGED <<asked, opts, fires, prepares, updates, lastGood>>

FlightNext ==
  \/ FlightFire
  \/ FlightSetFilter
  \/ FlightDropFilters
  \/ FlightSetPersistentFilter
  \/ FlightSetParams
  \/ FlightDropParams

FlightSpec == Init /\ [][FlightNext]_vars

\* --------------------------------------------- the fire cycle to its end
\* prepare, api.fire and the executor's answers, every executor call being
\* answered in the end
MaxLiveFires == 2
MaxLivePrepares == 1

LivePrepare ==
  /\ prepares < MaxLivePrepares
  /\ data' = prepare(data)
  /\ prepares' = prepares + 1
  /\ lastGood' = [lastGood EXCEPT !.sincePrepare = FALSE]
  /\ last' = Last("prepare", 0, Undefined)
  /\ UNCHANGED <<asked, opts, calls, fires, updates, muts>>

LiveFire ==
  /\ fires < MaxLiveFires
  /\ data' = prepare(data)
  /\ updates' = updates + 1
  /\ calls' = fire(calls, data', opts)
  /\ fires' = fires + 1
  /\ lastGood' = [lastGood EXCEPT !.sincePrepare = FALSE]
  /\ last' = Last("fire", Len(calls) + 1, Undefined)
  /\ UNCHANGED <<asked, opts, prepares, muts>>

LiveNext ==
  \/ LivePrepare
  \/ LiveFire
  \/ Resolve
  \/ Reject

\* the executor's promise of every call is fulfilled or rejected in the end
LiveSpec == Init /\ [][LiveNext]_vars /\ WF_vars(Resolve \/ Reject)

\* ------------------------------------------------------------- claims
valueOf(o, k) == IF k \in DOMAIN o THEN o[k] ELSE Undefined

Latest == Len(calls)

\* C1 (as claimed): when the response of fire A arrives after the response of
\* a fire B that was issued after A, it changes none of objects, aggregations,
\* totalCount, totalPages, and A's pending result is signalled as superseded.
C1_StaleResponseIsSuperseded ==
  (last.op = "resolve" /\ \E j \in DOMAIN calls : j > last.i /\ calls[j].state = "fulfilled")
    => /\ results(data) = results(last.pre)
       /\ calls[last.i].state = "superseded"

\* C2 (as claimed): while the most recently issued fire awaits its response,
\* the successful response of an older fire leaves running true and changes
\* nothing of the state.
C2_RunningWhileLatestPending ==
  (last.op = "resolve" /\ last.i < Latest /\ calls[Latest].state = "pending")
    => /\ data.running
       /\ data = last.pre

\* C3 (as claimed): when a fire's response arrives, update is called only if
\* the fire's request id is still the current requestSequence.
C3_NoUpdateForStaleFire ==
  (last.op = "resolve" /\ updates > 0 /\ calls[last.i].updated)
    => calls[last.i].reqId = data.reqId

\* C4: requestSequence starts at 0, never decreases, and grows by exactly one
\* per fire: it equals the number of fires plus the number of separate prepare
\* calls, so n fires and no separate prepare leave it at n.
C4_RequestSequenceCountsFires ==
  /\ (last.op = "new" => data.reqId = 0)
  /\ last.pre.reqId <= data.reqId
  /\ (last.op = "fire" => data.reqId = last.pre.reqId + 1)
  /\ data.reqId = fires + prepares
  /\ (prepares = 0 => data.reqId = fires)

C4_Witness == fires = 2 /\ prepares = 0 /\ data.reqId = 2

PrepareFrame ==
  /\ data.running
  /\ data.reqId = last.pre.reqId + 1
  /\ results(data) = emptyResults
  /\ data.params = last.pre.params
  /\ data.filters = last.pre.filters
  /\ data.persistentFilters = last.pre.persistentFilters
  /\ Len(calls) = last.n

\* C5 (as claimed): prepare() sets running, adds one to requestSequence, makes
\* the view's page, per, sort and order equal to the current values of those
\* params, resets the results, leaves params, filters and persistentFilters
\* alone and does not invoke the executor.
C5_PrepareViewEqualsParams ==
  last.op = "prepare"
    => /\ PrepareFrame
       /\ \A k \in ViewKeys : valueOf(data.view, k) = valueOf(data.params, k)

\* C5 (amended): as above, but the view's page, per, sort and order take the
\* values of the params that are present; a key absent from params keeps the
\* value the view had before.
C5_PrepareCopiesPresentParams ==
  last.op = "prepare"
    => /\ PrepareFrame
       /\ \A k \in ViewKeys :
            valueOf(data.view, k) =
              IF k \in DOMAIN data.params THEN data.params[k] ELSE valueOf(last.pre.view, k)

C5_Witness ==
  /\ last.op = "prepare"
  /\ "per" \notin DOMAIN data.params
  /\ valueOf(data.view, "per") = "24"
  /\ valueOf(data.view, "page") = "1"

\* C6: the successful response of the most recently issued fire puts its
\* objects, aggregations, pagination.total_count and pagination.total_pages
\* (0 for an absent one) into the state, sets running to false, fulfils the
\* fire's pending result with the state, and leaves params, filters and
\* persistentFilters unchanged.
C6_LatestResponseCommitted ==
  (last.op = "resolve" /\ last.i = Latest)
    => /\ data.objects = last.arg.objects
       /\ data.aggregations = last.arg.aggregations
       /\ data.totalCount = (IF "total_count" \in DOMAIN last.arg.pagination
                             THEN last.arg.pagination["total_count"] ELSE 0)
       /\ data.totalPages = (IF "total_pages" \in DOMAIN last.arg.pagination
                             THEN last.arg.pagination["total_pages"] ELSE 0)
       /\ ~data.running
       /\ calls[last.i].state = "fulfilled"
       /\ calls[last.i].value = TheData
       /\ data.params = last.pre.params
       /\ data.filters = last.pre.filters
       /\ data.persistentFilters = last.pre.persistentFilters

C6_Witness ==
  /\ last.op = "resolve"
  /\ last.i = Latest
  /\ Latest = 2
  /\ "total_pages" \notin DOMAIN last.arg.pagination
  /\ data.totalCount = 7
  /\ data.totalPages = 0

\* C7: a fire invokes the executor exactly once, with the body made of the
\* params, search.filters = persistentFilters followed by filters, and the
\* configured stats, all as they were at the moment of the fire, with the
\* params and with the schema as configured.
C7_ExecutorArguments ==
  last.op = "fire"
    => /\ Len(calls) = last.n + 1
       /\ LET c == calls[Latest]
              p == last.pre.params
          IN /\ DOMAIN c.body =
                  (DOMAIN p) \cup {"search"} \cup (IF opts.stats = Undefined THEN {} ELSE {"stats"})
             /\ \A k \in DOMAIN p : c.body[k] = p[k]
             /\ c.body["search"] = [filters |-> last.pre.persistentFilters \o last.pre.filters]
             /\ valueOf(c.body, "stats") = opts.stats
             /\ c.params = p
             /\ c.schema = opts.schema

C7_Witness ==
  /\ last.op = "fire"
  /\ last.pre.filters # <<>>
  /\ last.pre.persistentFilters # <<>>
  /\ opts.stats # Undefined

\* C8: when the executor fails, the fire's pending result fails with the
\* executor's error, the executor is not called again, running becomes false,
\* and objects, aggregations, totalCount, totalPages, params, filters and
\* persistentFilters are as they were before the failure.
C8_FailureHandling ==
  last.op = "reject"
    => /\ calls[last.i].state = "rejected"
       /\ calls[last.i].value = last.arg
       /\ Len(calls) = last.n
       /\ Pending(calls) = last.pending \ {last.i}
       /\ ~data.running
       /\ results(data) = results(last.pre)
       /\ data.params = last.pre.params
       /\ data.filters = last.pre.filters
       /\ data.persistentFilters = last.pre.persistentFilters

C8_Witness ==
  /\ last.op = "reject"
  /\ last.pending = {last.i}
  /\ data.objects # <<>>
  /\ data.totalCount > 0

\* C9 (as claimed): when a fire fails after an earlier fire succeeded, objects,
\* aggregations, totalCount and totalPages hold the results committed by the
\* last successful fire.
C9_FailureKeepsLastGoodResult ==
  (last.op = "reject" /\ lastGood.any) => results(data) = lastGood.results

\* C9 (amended): when a fire fails, objects, aggregations, totalCount and
\* totalPages are what they were just before the failure: the empty/zero values
\* of the fire's prepare when no response has arrived since the last prepare
\* (even if an earlier fire succeeded), else the results of the last response.
C9_FailureKeepsResultsSincePrepare ==
  last.op = "reject"
    => results(data) = IF lastGood.sincePrepare THEN lastGood.results ELSE emptyResults

C9_Witness ==
  /\ last.op = "reject"
  /\ lastGood.any
  /\ ~lastGood.sincePrepare
  /\ lastGood.results.objects # <<>>
  /\ data.objects = <<>>

\* C10: every fire invokes the executor at once, however many calls are in
\* flight, and leaves those in flight: n fires make n executor calls, and
\* a call stays pending until its own response arrives.
C10_FireNeverBlocksNorCancels ==
  /\ Len(calls) = fires
  /\ \A i \in DOMAIN calls : calls[i].state \in {"pending", "fulfilled", "rejected"}
  /\ (last.op = "fire" => /\ Len(calls) = last.n + 1
                          /\ Pending(calls) = last.pending \cup {Latest})
  /\ (last.op \notin {"fire", "resolve", "reject"} => Pending(calls) = last.pending)

C10_Witness ==
  /\ last.op = "fire"
  /\ last.pending # {}
  /\ Cardinality(Pending(calls)) = 2

\* C11 (as claimed): for every fire, update is called once right after prepare
\* and once more when the fire cycle ends, whether the executor succeeded or
\* failed: every call that is no longer pending has had its second update.
C11_UpdateAfterEveryFireCycle ==
  /\ updates = fires + Cardinality({i \in DOMAIN calls : calls[i].state # "pending"})
  /\ \A i \in DOMAIN calls : calls[i].state # "pending" => calls[i].updated

\* ------------------------------------------------- claims on the state store
Families == {{"match"}, {"eq", "ne"}, {"range", "in", "not_in"}, {"exist", "not_exist"}}

FamilyOf(m) == IF \E F \in Families : m \in F THEN CHOOSE F \in Families : m \in F ELSE {m}

\* the filters of attribute a whose method is in F, in their order
OfFamily(filters, a, F) == SelectSeq(filters, LAMBDA f: at(f, 1) = a /\ at(f, 2) \in F)

\* the tuple setFilter is asked to set: attribute, method and the values given
NewTuple(arg) == <<arg[1], arg[2]>> \o SelectSeq(<<arg[3], arg[4]>>, LAMBDA v: v # Undefined)

SetsFamily(a, F) == last.op = "setFilter" /\ last.arg[1] = a /\ last.arg[2] \in F

\* C12: after any sequence of setFilter and dropFilters calls every attribute
\* has at most one filter per method family, and it is the one set most
\* recently: a setFilter leaves exactly its own tuple in its family, and no
\* other call brings a tuple into a family or changes the one that is there.
C12_OneFilterPerFamily ==
  \A a \in Attributes, F \in Families :
    /\ Len(OfFamily(data.filters, a, F)) <= 1
    /\ (SetsFamily(a, F)
          => /\ OfFamily(data.filters, a, F) = <<data.filters[Len(data.filters)]>>
             /\ at(data.filters[Len(data.filters)], 2) = last.arg[2])
    /\ (~SetsFamily(a, F) /\ last.op # "new"
          => OfFamily(data.filters, a, F) \in {<<>>, OfFamily(last.pre.filters, a, F)})

C12_Witness ==
  /\ last.op = "setFilter"
  /\ last.arg[2] = "ne"
  /\ OfFamily(last.pre.filters, last.arg[1], {"eq", "ne"}) = <<<<last.arg[1], "eq", "2", "3">>>>
  /\ OfFamily(data.filters, last.arg[1], {"eq", "ne"}) = <<<<last.arg[1], "ne", "1">>>>
  /\ Len(data.filters) = 2

\* C13 (as claimed): filters holds at most one tuple with method q, the last
\* one set, whatever attribute the q filters were set with.
C13_QIsSingleton ==
  LET qs == SelectSeq(data.filters, LAMBDA f: at(f, 2) = "q")
  IN /\ Len(qs) <= 1
     /\ (last.op = "setFilter" /\ last.arg[2] = "q" => qs = <<NewTuple(last.arg)>>)

\* C14 (as claimed): a new match filter for an attribute clears the existing
\* filters of type match, eq and ne of that attribute.
C14_MatchClearsEqAndNe ==
  (last.op = "setFilter" /\ last.arg[2] = "match")
    => OfFamily(data.filters, last.arg[1], {"match", "eq", "ne"}) = <<NewTuple(last.arg)>>

\* C15 (as claimed): setFilter removes only the filters of the same attribute
\* and of the method's family, keeps all others in their order and appends the
\* new tuple last.
C15_SetFilterFrame ==
  last.op = "setFilter"
    => data.filters =
         Append(SelectSeq(last.pre.filters,
                          LAMBDA f: ~(at(f, 1) = last.arg[1] /\ at(f, 2) \in FamilyOf(last.arg[2]))),
                at(data.filters, Len(data.filters)))

\* C16: every setFilter call leaves params.page at 1, whatever it was, and
\* every other key of params as it was.
C16_SetFilterResetsPage ==
  last.op = "setFilter"
    => /\ "page" \in DOMAIN data.params
       /\ data.params["page"] = "1"
       /\ (DOMAIN data.params) \ {"page"} = (DOMAIN last.pre.params) \ {"page"}
       /\ \A k \in (DOMAIN data.params) \ {"page"} : data.params[k] = last.pre.params[k]

C16_Witness ==
  /\ last.op = "setFilter"
  /\ "page" \in DOMAIN last.pre.params
  /\ last.pre.params["page"] = "2"
  /\ data.params = initialParams

Given(x) == x # Undefined

\* the matching rule of dropFilters(attribute?, method?) as documented
Matches(arg, f) ==
  /\ Given(arg[1]) => at(f, 1) = arg[1]
  /\ Given(arg[2]) => at(f, 2) = arg[2]

\* C17: dropFilters(attribute?, method?) removes exactly the filters that match
\* what is given, keeps the others in their order and leaves persistentFilters
\* alone; after dropFilters() filters is empty and pristine() is true.
C17_DropFilters ==
  last.op = "dropFilters"
    => /\ data.filters = SelectSeq(last.pre.filters, LAMBDA f: ~Matches(last.arg, f))
       /\ data.persistentFilters = last.pre.persistentFilters
       /\ (~Given(last.arg[1]) /\ ~Given(last.arg[2]) => data.filters = <<>> /\ pristine(data))

C17_Witness ==
  /\ last.op = "dropFilters"
  /\ last.arg = <<"a", "in">>
  /\ Len(last.pre.filters) = 2
  /\ data.filters = <<<<"a", "exist">>>>

\* C18: persistentFilters only grows, by one tuple appended per
\* setPersistentFilter call, a tuple that is already there included; no other
\* operation, prepare, fire and the response handling included, changes it;
\* no persistent tuple shows in getFilters() and pristine() depends on
\* filters alone.
C18_PersistentFiltersAppendOnly ==
  /\ last.op = "setPersistentFilter"
       => /\ data.persistentFilters = Append(last.pre.persistentFilters, NewTuple(last.arg))
          /\ getFilters(data, Undefined, Undefined) = getFilters(last.pre, Undefined, Undefined)
          /\ pristine(data) = pristine(last.pre)
  /\ last.op \notin {"new", "setPersistentFilter"}
       => data.persistentFilters = last.pre.persistentFilters
  /\ \A i \in DOMAIN data.persistentFilters :
       \A j \in DOMAIN getFilters(data, Undefined, Undefined) :
         getFilters(data, Undefined, Undefined)[j] # data.persistentFilters[i]
  /\ pristine(data) <=> data.filters = <<>>

C18_Witness ==
  /\ last.op \in {"resolve", "reject"}
  /\ data.persistentFilters = <<<<"id", "in", "5">>, <<"id", "in", "5">>>>
  /\ pristine(data)

\* C19: getFilterValues(attribute, method) returns the values of the first
\* filter with that attribute and method: the value itself when the tuple has
\* one, the list of values when it has more, undefined when no filter matches;
\* the state is as it was before the call.
C19_GetFilterValues ==
  last.op = "getFilterValues"
    => LET matching == SelectSeq(data.filters,
                                 LAMBDA f: at(f, 1) = last.arg[1] /\ at(f, 2) = last.arg[2])
           r == last.arg[3]
       IN /\ data = last.pre
          /\ matching = <<>> => r.kind = "undefined"
          /\ (matching # <<>> /\ Len(matching[1]) = 3)
               => r.kind = "value" /\ r.value = matching[1][3]
          /\ (matching # <<>> /\ Len(matching[1]) > 3)
               => r.kind = "list" /\ r.list = SubSeq(matching[1], 3, Len(matching[1]))

C19_Witness ==
  /\ last.op = "getFilterValues"
  /\ last.arg[1] = "a" /\ last.arg[2] = "q"
  /\ data.filters = <<<<"a", "q", "2", "3">>, <<"a", "q", "1">>>>
  /\ last.arg[3].kind = "list"
  /\ last.arg[3].list = <<"2", "3">>

NoNilParam == \A k \in DOMAIN data.params : ~isNil(data.params[k])

\* C20 (as claimed): no key of params maps to null or undefined, and
\* setParams(patch) leaves the old params overridden by every key of patch,
\* without the keys whose value is then null or undefined.
C20_SetParamsOverridesAndPrunes ==
  /\ NoNilParam
  /\ last.op = "setParams"
       => LET overridden == extend(last.pre.params, last.arg)
          IN data.params = pick(overridden, {k \in DOMAIN overridden : ~isNil(overridden[k])})

\* C20 (amended): no key of params maps to null or undefined; setParams(patch)
\* overrides the old params by the keys of patch whose value is not undefined,
\* a key that patch maps to undefined keeping the value it had, and removes
\* the keys whose value is then null.
C20_SetParamsMergesAndPrunes ==
  /\ NoNilParam
  /\ last.op = "setParams"
       => LET set == {k \in DOMAIN last.arg : last.arg[k] # Undefined}
              merged == extend(last.pre.params, pick(last.arg, set))
          IN data.params = pick(merged, {k \in DOMAIN merged : merged[k] # Null})

C20_Witness ==
  /\ last.op = "setParams"
  /\ last.arg = [per |-> Undefined]
  /\ "page" \notin DOMAIN last.pre.params
  /\ data.params = [only_roots |-> "false", per |-> "24", sort |-> "created_at", order |-> "desc"]

\* C21 (as claimed): dropParams(k1, ..., kn) removes exactly the named keys
\* from params and leaves every other key and value as it was.
C21_DropParamsRemovesNamedKeys ==
  last.op = "dropParams"
    => LET named == {last.arg[i] : i \in DOMAIN last.arg}
       IN data.params = pick(last.pre.params, (DOMAIN last.pre.params) \ named)

\* ---------------------------------------------- claims on the api as called
\* C22 (as claimed): api.getAggregations(attribute) returns the entry
\* count_by_<attribute> of the aggregations fetched last, and an empty
\* sequence when there is no such entry.
C22_GetAggregationsReturnsFacet ==
  last.op = "getAggregations"
    => LET key == "count_by_" \o last.arg.attribute
       IN /\ last.arg.returned.raised = Undefined
          /\ last.arg.returned.kind = "list"
          /\ last.arg.returned.list =
               IF key \in DOMAIN data.aggregations THEN data.aggregations[key] ELSE <<>>

\* position of an object's id in the fixed order, past the end when absent
PositionIn(order, id) ==
  IF \E i \in DOMAIN order : order[i] = id
  THEN CHOOSE i \in DOMAIN order : order[i] = id
  ELSE Len(order) + 1

\* objs is raw sorted stably by the position of each id in order
SortedByFixedOrder(objs, raw, order) ==
  /\ Len(objs) = Len(raw)
  /\ \A x \in {raw[i] : i \in DOMAIN raw} :
       Cardinality({i \in DOMAIN objs : objs[i] = x}) = Cardinality({i \in DOMAIN raw : raw[i] = x})
  /\ \A i, j \in DOMAIN objs :
       i < j => PositionIn(order, objs[i]) <= PositionIn(order, objs[j])
  /\ SelectSeq(objs, LAMBDA x: PositionIn(order, x) > Len(order))
       = SelectSeq(raw, LAMBDA x: PositionIn(order, x) > Len(order))

\* C23 (as claimed): once setFixedOrder(ids) has been called, the objects of a
\* committed successful fire are the raw objects sorted stably by the position
\* of their id in ids, objects with other ids last.
C23_FixedOrderResorts ==
  (asked # Undefined /\ last.op = "resolve")
    => SortedByFixedOrder(data.objects, last.arg.objects, asked)

\* C25 (as claimed): serialize() yields a token, deserialize of that token the
\* {params, filters, persistentFilters} of the state, and deserialize of a
\* malformed token an empty object; none raises an error.
C25_TokenRoundTrip ==
  /\ last.op = "serialize" => last.arg.returned.raised = Undefined
  /\ last.op = "deserialize"
       => /\ last.arg.returned.raised = Undefined
          /\ last.arg.token \in Tokens => last.arg.returned.kind = "list"

\* C26 (as claimed): without the executor option the construction raises an
\* error: no instance exists, init has not been called, no fire is ever made.
C26_ConstructionRequiresExecutor ==
  opts.executor = Undefined
    => /\ last.op = "new"
       /\ last.arg.raised # Undefined
       /\ data.persistentFilters = <<>>
       /\ fires = 0

Mutators == {"setFilter", "dropFilters", "setPersistentFilter", "setParams", "dropParams"}

\* C27: setFilter, dropFilters, setPersistentFilter, setParams and dropParams
\* only change the query state: no executor call is made or settled, and
\* reqId, running, objects, aggregations, totalCount and totalPages are as
\* they were before the call.
C27_MutatorsAreSynchronous ==
  last.op \in Mutators
    => /\ Len(calls) = last.n
       /\ Pending(calls) = last.pending
       /\ data.reqId = last.pre.reqId
       /\ data.running = last.pre.running
       /\ results(data) = results(last.pre)

C27_Witness ==
  /\ last.op = "setParams"
  /\ last.pending # {}
  /\ data.objects # <<>>
  /\ data.params # last.pre.params

\* the params part of the request body of a call: the values of params when
\* the call was made
ParamsSent(c) == [k \in (DOMAIN c.body) \ {"search", "stats"} |-> c.body[k]]

\* C28 (as claimed): the params the executor received for a fire in flight
\* stay what they were when the fire was made, whatever setFilter,
\* dropFilters, setPersistentFilter, setParams or dropParams calls follow.
C28_RequestIsSnapshot ==
  \A i \in DOMAIN calls :
    calls[i].state = "pending" => calls[i].params = ParamsSent(calls[i])

\* v1, v2 without the trailing null/undefined values
TrimTrailing(v1, v2) ==
  IF ~isNil(v2) THEN <<v1, v2>>
  ELSE IF ~isNil(v1) THEN <<v1>>
  ELSE <<>>

\* C29 (as claimed): setFilter(attribute, method, v1, v2) appends one tuple:
\* attribute, method, then v1 and v2 without the trailing null/undefined
\* values, so that a given v2 stays second when v1 is null or undefined.
C29_SetFilterTrimsTrailing ==
  last.op = "setFilter"
    => /\ data.filters # <<>>
       /\ data.filters[Len(data.filters)]
            = <<last.arg[1], last.arg[2]>> \o TrimTrailing(last.arg[3], last.arg[4])

\* C30 (as claimed): setPersistentFilter(attribute, method, v1, v2) appends
\* the tuple that setFilter appends for the same arguments.
C30_PersistentTupleAsFilterTuple ==
  last.op = "setPersistentFilter"
    => LET asFilter == setFilter(last.pre, last.arg[1], last.arg[2], last.arg[3], last.arg[4]).filters
       IN /\ Len(data.persistentFilters) = Len(last.pre.persistentFilters) + 1
          /\ data.persistentFilters[Len(data.persistentFilters)] = asFilter[Len(asFilter)]

\* C31: when every executor call is answered in the end, running becomes
\* false after every fire, the last one included, and once false it becomes
\* true by a prepare or a fire only.
C31_RunningEndsFalse ==
  /\ (last.op = "fire") ~> (~data.running)
  /\ [][(~data.running /\ data'.running) => last'.op \in {"prepare", "fire"}]_vars

C31_Witness ==
  /\ last.op \in {"resolve", "reject"}
  /\ Len(calls) >= 2
  /\ Pending(calls) = {}
  /\ last.pre.running
  /\ ~data.running

====
